---- MODULE Spec2Model ----
(***************************************************************************)
(* A model of src/gemini.ts: the Generative Call Gateway (callGeminiAPI),  *)
(* the seven zod response schemas and the seven feature operations that    *)
(* build a prompt, call the gateway and validate what it returns.          *)
(*                                                                         *)
(* A text is a sequence of lexical tokens, JSON.parse is a recursive       *)
(* descent parser over it, a JavaScript value is a tagged record, a zod    *)
(* schema is a tagged record interpreted by SafeParse.                     *)
(***************************************************************************)
EXTENDS Integers, Sequences, FiniteSets, TLC

(***************************************************************************)
(* JavaScript values.                                                      *)
(***************************************************************************)
JUndef == [k |-> "undef"]
JNull == [k |-> "null"]
JBool(b) == [k |-> "bool", b |-> b]
JNum(n) == [k |-> "num", n |-> n]
JStr(s) == [k |-> "str", s |-> s]
\* a string value given by its text (a token sequence), as opposed to a
\* short literal string of the payload
JText(t) == [k |-> "text", t |-> t]
JArr(a) == [k |-> "arr", a |-> a]
JObj(o) == [k |-> "obj", o |-> o]

EmptyObj == [x \in {} |-> JNull]

(***************************************************************************)
(* Texts: sequences of tokens.                                             *)
(***************************************************************************)
TPunct(c) == [t |-> "punct", s |-> c]
TLit(w) == [t |-> "lit", s |-> w]
TStr(s) == [t |-> "str", s |-> s]
TNum(n) == [t |-> "num", n |-> n]
\* anything else the model may write: prose, a markdown fence
TWord(w) == [t |-> "word", s |-> w]

IsPunct(tok, c) == tok.t = "punct" /\ tok.s = c

(***************************************************************************)
(* JSON.parse (src/gemini.ts:200), as a recursive descent parser.  A       *)
(* result is [ok, val, rest]; a duplicate key keeps its last value.        *)
(***************************************************************************)
ParseFail == [ok |-> FALSE, val |-> JUndef, rest |-> <<>>]
ParseOk(v, r) == [ok |-> TRUE, val |-> v, rest |-> r]

RECURSIVE ParseValue(_), ParseElems(_, _), ParseMembers(_, _)

ParseValue(ts) ==
    IF ts = <<>> THEN ParseFail
    ELSE LET h == Head(ts)
             r == Tail(ts)
         IN CASE h.t = "str" -> ParseOk(JStr(h.s), r)
              [] h.t = "num" -> ParseOk(JNum(h.n), r)
              [] h.t = "lit" /\ h.s = "true" -> ParseOk(JBool(TRUE), r)
              [] h.t = "lit" /\ h.s = "false" -> ParseOk(JBool(FALSE), r)
              [] h.t = "lit" /\ h.s = "null" -> ParseOk(JNull, r)
              [] IsPunct(h, "[") ->
                    IF r # <<>> /\ IsPunct(Head(r), "]")
                    THEN ParseOk(JArr(<<>>), Tail(r))
                    ELSE ParseElems(r, <<>>)
              [] IsPunct(h, "{") ->
                    IF r # <<>> /\ IsPunct(Head(r), "}")
                    THEN ParseOk(JObj(EmptyObj), Tail(r))
                    ELSE ParseMembers(r, EmptyObj)
              [] OTHER -> ParseFail

ParseElems(ts, acc) ==
    LET v == ParseValue(ts)
    IN IF ~v.ok \/ v.rest = <<>> THEN ParseFail
       ELSE LET sep == Head(v.rest)
                all == Append(acc, v.val)
            IN CASE IsPunct(sep, ",") -> ParseElems(Tail(v.rest), all)
                 [] IsPunct(sep, "]") -> ParseOk(JArr(all), Tail(v.rest))
                 [] OTHER -> ParseFail

ParseMembers(ts, acc) ==
    IF Len(ts) < 3 \/ Head(ts).t # "str" \/ ~IsPunct(ts[2], ":") THEN ParseFail
    ELSE LET key == Head(ts).s
             v == ParseValue(Tail(Tail(ts)))
         IN IF ~v.ok \/ v.rest = <<>> THEN ParseFail
            ELSE LET sep == Head(v.rest)
                     all == (key :> v.val) @@ acc
                 IN CASE IsPunct(sep, ",") -> ParseMembers(Tail(v.rest), all)
                      [] IsPunct(sep, "}") -> ParseOk(JObj(all), Tail(v.rest))
                      [] OTHER -> ParseFail

\* JSON.parse(text): the whole text must be one value
JSONParse(text) ==
    LET r == ParseValue(text)
    IN IF r.ok /\ r.rest = <<>> THEN [ok |-> TRUE, val |-> r.val]
       ELSE [ok |-> FALSE, val |-> JUndef]

(***************************************************************************)
(* zod (src/gemini.ts:1).  A schema is a tagged record; an object schema's *)
(* shape maps each declared key to its schema and whether it is optional.  *)
(***************************************************************************)
ZString == [z |-> "string"]
ZBoolean == [z |-> "boolean"]
ZNumber == [z |-> "number", hasMin |-> FALSE, min |-> 0, hasMax |-> FALSE, max |-> 0]
ZMin(s, lo) == [s EXCEPT !.hasMin = TRUE, !.min = lo]
ZMax(s, hi) == [s EXCEPT !.hasMax = TRUE, !.max = hi]
ZEnum(vals) == [z |-> "enum", values |-> vals]
ZArray(el) == [z |-> "array", element |-> el]
ZObject(shape) == [z |-> "object", shape |-> shape]
Req(s) == [optional |-> FALSE, schema |-> s]
Opt(s) == [optional |-> TRUE, schema |-> s]

IsString(v) == v.k \in {"str", "text"}

\* (variant: the bounds exclude their end points)
NumberInRange_Exclusive(s, n) ==
    /\ s.hasMin => n > s.min
    /\ s.hasMax => n < s.max

\* z.number().min(lo).max(hi): both bounds are inclusive
NumberInRange(s, n) ==
    /\ s.hasMin => n >= s.min
    /\ s.hasMax => n <= s.max

\* which keys of a parsed object an object schema keeps in its output: zod's
\* default for z.object is to strip the keys the shape does not declare
KeptKeys(shape, o) == DOMAIN o \cap DOMAIN shape

\* (variant: a missing key is never an issue)
MissingOk_Lenient(field) == TRUE

\* a key the shape declares and the object lacks is an issue unless optional
MissingOk(field) == field.optional

RECURSIVE ZodOk(_, _)
ZodOk(s, v) ==
    CASE s.z = "string" -> IsString(v)
      [] s.z = "boolean" -> v.k = "bool"
      [] s.z = "number" -> v.k = "num" /\ NumberInRange(s, v.n)
      [] s.z = "enum" -> v.k = "str" /\ v.s \in s.values
      [] s.z = "array" ->
            v.k = "arr" /\ \A i \in DOMAIN v.a : ZodOk(s.element, v.a[i])
      [] s.z = "object" ->
            /\ v.k = "obj"
            /\ \A key \in DOMAIN s.shape :
                  IF key \in DOMAIN v.o
                  THEN ZodOk(s.shape[key].schema, v.o[key])
                  ELSE MissingOk(s.shape[key])

\* (variant: the output is the input, undeclared keys kept)
ZodOut_Passthrough(s, v) == v

RECURSIVE ZodOut(_, _)
ZodOut(s, v) ==
    CASE s.z = "array" -> JArr([i \in DOMAIN v.a |-> ZodOut(s.element, v.a[i])])
      [] s.z = "object" ->
            JObj([key \in KeptKeys(s.shape, v.o) |->
                      ZodOut(s.shape[key].schema, v.o[key])])
      [] OTHER -> v

\* schema.safeParse(v)
SafeParse(s, v) ==
    IF ZodOk(s, v) THEN [success |-> TRUE, data |-> ZodOut(s, v)]
    ELSE [success |-> FALSE, data |-> JUndef]

(***************************************************************************)
(* The seven response schemas (src/gemini.ts:6-141).                       *)
(***************************************************************************)
RankMin == 1
RankMax == 5
RelevanceMin == 1
RelevanceMax == 10

conflictAnalysisSchema ==
    ZObject([hasConflict |-> Req(ZBoolean),
             conflictDetails |-> Opt(ZString),
             suggestedSolutions |-> Opt(ZArray(ZObject(
                 [description |-> Req(ZString),
                  pros |-> Req(ZArray(ZString)),
                  cons |-> Req(ZArray(ZString))])))])

coworkingRecommendationSchema ==
    ZObject([recommendations |-> Req(ZArray(ZObject(
                 [name |-> Req(ZString),
                  location |-> Req(ZString),
                  rating |-> Opt(ZString),
                  price |-> Req(ZString),
                  internetSpeed |-> Opt(ZString),
                  amenities |-> Req(ZArray(ZString)),
                  matchingCriteria |-> Req(ZArray(ZString)),
                  potentialDrawbacks |-> Req(ZArray(ZString)),
                  rank |-> Req(ZMax(ZMin(ZNumber, RankMin), RankMax))]))),
             recommendationSummary |-> Req(ZString)])

timeZoneRecommendationSchema ==
    ZObject([optimalMeetingTimes |-> Req(ZArray(ZObject(
                 [startTime |-> Req(ZString),
                  endTime |-> Req(ZString),
                  impactAssessment |-> Req(ZArray(ZObject(
                      [location |-> Req(ZString),
                       localTime |-> Req(ZString),
                       impact |-> Req(ZEnum({"Optimal", "Acceptable", "Challenging"}))]))),
                  reasoning |-> Req(ZString)]))),
             jetlagManagementTips |-> Opt(ZArray(ZString))])

budgetAnalysisSchema ==
    ZObject([categorizedExpenses |-> Req(ZArray(ZObject(
                 [category |-> Req(ZString),
                  amount |-> Req(ZNumber),
                  percentage |-> Req(ZNumber),
                  workRelated |-> Req(ZBoolean)]))),
             comparisonToAverage |-> Req(ZObject(
                 [status |-> Req(ZEnum({"Above average", "Below average", "Average"})),
                  details |-> Req(ZString)])),
             recommendations |-> Req(ZArray(ZObject(
                 [description |-> Req(ZString),
                  potentialSavings |-> Opt(ZNumber),
                  implementationDifficulty |-> Req(ZEnum({"Easy", "Medium", "Hard"}))])))])

communityRecommendationSchema ==
    ZObject([recommendations |-> Req(ZArray(ZObject(
                 [name |-> Req(ZString),
                  type |-> Req(ZString),
                  relevanceScore |-> Req(ZMax(ZMin(ZNumber, RelevanceMin), RelevanceMax)),
                  description |-> Req(ZString),
                  contactMethod |-> Opt(ZString),
                  matchingInterests |-> Req(ZArray(ZString)),
                  networkingApproach |-> Req(ZString)])))])

legalResourceSchema ==
    ZObject([visaRequirements |-> Opt(ZObject(
                 [requiredVisa |-> Req(ZString),
                  stayDuration |-> Req(ZString),
                  applicationProcess |-> Req(ZString),
                  requiredDocuments |-> Req(ZArray(ZString)),
                  processingTime |-> Req(ZString),
                  fees |-> Req(ZString)])),
             taxImplications |-> Opt(ZObject(
                 [taxStatus |-> Req(ZString),
                  reportingRequirements |-> Req(ZString),
                  treatiesSummary |-> Opt(ZString),
                  keyConsiderations |-> Req(ZArray(ZString))])),
             workLegality |-> Opt(ZObject(
                 [legalStatus |-> Req(ZString),
                  restrictions |-> Opt(ZArray(ZString)),
                  permissions |-> Opt(ZArray(ZString))])),
             authoritativeSources |-> Req(ZArray(ZObject(
                 [name |-> Req(ZString),
                  url |-> Opt(ZString),
                  description |-> Req(ZString)]))),
             disclaimer |-> Req(ZString)])

assistantResponseSchema ==
    ZObject([response |-> Req(ZString),
             relatedModules |-> Opt(ZArray(ZString)),
             suggestedActions |-> Opt(ZArray(ZString))])

\* the public operations: the gateway itself and the seven feature operations
Features ==
    {"analyzeCalendarConflicts", "getCoworkingRecommendations",
     "getTimeZoneRecommendations", "analyzeBudget",
     "getCommunityRecommendations", "getLegalResources", "getAssistantResponse"}

Ops == Features \cup {"callGeminiAPI"}

\* the schema each feature operation validates the gateway's result against
SchemaOf(f) ==
    CASE f = "analyzeCalendarConflicts" -> conflictAnalysisSchema
      [] f = "getCoworkingRecommendations" -> coworkingRecommendationSchema
      [] f = "getTimeZoneRecommendations" -> timeZoneRecommendationSchema
      [] f = "analyzeBudget" -> budgetAnalysisSchema
      [] f = "getCommunityRecommendations" -> communityRecommendationSchema
      [] f = "getLegalResources" -> legalResourceSchema
      [] f = "getAssistantResponse" -> assistantResponseSchema

(***************************************************************************)
(* What the upstream service may write as the first candidate's text: the  *)
(* serialisation of a JSON value, or a text that is no JSON at all.        *)
(***************************************************************************)
RECURSIVE KeySeq(_)
KeySeq(keys) ==
    IF keys = {} THEN <<>>
    ELSE LET key == CHOOSE x \in keys : TRUE
         IN <<key>> \o KeySeq(keys \ {key})

RECURSIVE Stringify(_), JoinElems(_, _), JoinMembers(_, _)

Stringify(v) ==
    CASE v.k = "null" -> <<TLit("null")>>
      [] v.k = "bool" -> <<TLit(IF v.b THEN "true" ELSE "false")>>
      [] v.k = "num" -> <<TNum(v.n)>>
      [] v.k = "str" -> <<TStr(v.s)>>
      [] v.k = "arr" -> <<TPunct("[")>> \o JoinElems(v.a, 1) \o <<TPunct("]")>>
      [] v.k = "obj" ->
            <<TPunct("{")>> \o JoinMembers(v.o, KeySeq(DOMAIN v.o)) \o <<TPunct("}")>>

JoinElems(a, i) ==
    IF i > Len(a) THEN <<>>
    ELSE Stringify(a[i])
             \o (IF i < Len(a) THEN <<TPunct(",")>> ELSE <<>>)
             \o JoinElems(a, i + 1)

JoinMembers(o, keys) ==
    IF keys = <<>> THEN <<>>
    ELSE <<TStr(Head(keys)), TPunct(":")>> \o Stringify(o[Head(keys)])
             \o (IF Len(keys) > 1 THEN <<TPunct(",")>> ELSE <<>>)
             \o JoinMembers(o, Tail(keys))

Strs(seq) == JArr([i \in DOMAIN seq |-> JStr(seq[i])])

\* one fully populated payload per feature (the first is the example
\* scenario of the specification)
CoworkingSpace(rank) ==
    JObj([name |-> JStr("Hub"), location |-> JStr("Lisbon"), rating |-> JStr("4.5"),
          price |-> JStr("20/day"), internetSpeed |-> JStr("100Mbps"),
          amenities |-> Strs(<<"coffee">>), matchingCriteria |-> Strs(<<"quiet">>),
          potentialDrawbacks |-> Strs(<<>>), rank |-> JNum(rank)])

CoworkingPayload(spaces) ==
    JObj([recommendations |-> JArr(spaces), recommendationSummary |-> JStr("Hub is best")])

CommunityGroup(score) ==
    JObj([name |-> JStr("Meetup"), type |-> JStr("Event"), relevanceScore |-> JNum(score),
          description |-> JStr("weekly"), contactMethod |-> JStr("mail"),
          matchingInterests |-> Strs(<<"surf">>), networkingApproach |-> JStr("say hi")])

CommunityPayload(groups) == JObj([recommendations |-> JArr(groups)])

FullPayload(f) ==
    CASE f = "analyzeCalendarConflicts" ->
            JObj([hasConflict |-> JBool(TRUE), conflictDetails |-> JStr("Overlapping"),
                  suggestedSolutions |-> JArr(<<
                      JObj([description |-> JStr("Move call to 11:00"),
                            pros |-> Strs(<<"No disruption">>),
                            cons |-> Strs(<<"Later start">>)])>>)])
      [] f = "getCoworkingRecommendations" -> CoworkingPayload(<<CoworkingSpace(RankMin)>>)
      [] f = "getTimeZoneRecommendations" ->
            JObj([optimalMeetingTimes |-> JArr(<<
                      JObj([startTime |-> JStr("09:00Z"), endTime |-> JStr("10:00Z"),
                            impactAssessment |-> JArr(<<
                                JObj([location |-> JStr("Lisbon"), localTime |-> JStr("09:00"),
                                      impact |-> JStr("Optimal")])>>),
                            reasoning |-> JStr("all awake")])>>),
                  jetlagManagementTips |-> Strs(<<"sleep">>)])
      [] f = "analyzeBudget" ->
            JObj([categorizedExpenses |-> JArr(<<
                      JObj([category |-> JStr("rent"), amount |-> JNum(3),
                            percentage |-> JNum(2), workRelated |-> JBool(FALSE)])>>),
                  comparisonToAverage |->
                      JObj([status |-> JStr("Average"), details |-> JStr("typical")]),
                  recommendations |-> JArr(<<
                      JObj([description |-> JStr("cook"), potentialSavings |-> JNum(1),
                            implementationDifficulty |-> JStr("Easy")])>>)])
      [] f = "getCommunityRecommendations" ->
            CommunityPayload(<<CommunityGroup(RelevanceMax)>>)
      [] f = "getLegalResources" ->
            JObj([visaRequirements |->
                      JObj([requiredVisa |-> JStr("D7"), stayDuration |-> JStr("1y"),
                            applicationProcess |-> JStr("consulate"),
                            requiredDocuments |-> Strs(<<"passport">>),
                            processingTime |-> JStr("60d"), fees |-> JStr("90")]),
                  taxImplications |->
                      JObj([taxStatus |-> JStr("resident"),
                            reportingRequirements |-> JStr("annual"),
                            treatiesSummary |-> JStr("treaty"),
                            keyConsiderations |-> Strs(<<"183 days">>)]),
                  workLegality |->
                      JObj([legalStatus |-> JStr("allowed"),
                            restrictions |-> Strs(<<"no local clients">>),
                            permissions |-> Strs(<<"remote">>)]),
                  authoritativeSources |-> JArr(<<
                      JObj([name |-> JStr("SEF"), url |-> JStr("sef.pt"),
                            description |-> JStr("immigration")])>>),
                  disclaimer |-> JStr("not legal advice")])
      [] f = "getAssistantResponse" ->
            JObj([response |-> JStr("Pack light"), relatedModules |-> Strs(<<"budget">>),
                  suggestedActions |-> Strs(<<"book">>)])

\* the keys the schemas declare optional (no key is optional in one schema
\* and required in another)
OptionalKeys ==
    {"conflictDetails", "suggestedSolutions", "rating", "internetSpeed",
     "jetlagManagementTips", "potentialSavings", "contactMethod", "visaRequirements",
     "taxImplications", "workLegality", "treatiesSummary", "restrictions",
     "permissions", "url", "relatedModules", "suggestedActions"}

Without(o, key) == [x \in DOMAIN o \ {key} |-> o[x]]

\* v with exactly one object member removed, anywhere: [key, val]
RECURSIVE Drops(_)
Drops(v) ==
    CASE v.k = "obj" ->
            {[key |-> key, val |-> JObj(Without(v.o, key))] : key \in DOMAIN v.o}
            \cup UNION {{[key |-> d.key, val |-> JObj([v.o EXCEPT ![key] = d.val])] :
                            d \in Drops(v.o[key])} : key \in DOMAIN v.o}
      [] v.k = "arr" ->
            UNION {{[key |-> d.key, val |-> JArr([v.a EXCEPT ![i] = d.val])] :
                       d \in Drops(v.a[i])} : i \in DOMAIN v.a}
      [] OTHER -> {}

\* v with one undeclared member added to exactly one of its objects
RECURSIVE Extras(_)
Extras(v) ==
    CASE v.k = "obj" ->
            {JObj(("extra" :> JStr("x")) @@ v.o)}
            \cup UNION {{JObj([v.o EXCEPT ![key] = e]) : e \in Extras(v.o[key])} :
                           key \in DOMAIN v.o}
      [] v.k = "arr" ->
            UNION {{JArr([v.a EXCEPT ![i] = e]) : e \in Extras(v.a[i])} : i \in DOMAIN v.a}
      [] OTHER -> {}

\* v with exactly one of its leaves replaced by null
RECURSIVE Nulled(_)
Nulled(v) ==
    CASE v.k = "obj" ->
            UNION {{JObj([v.o EXCEPT ![key] = e]) : e \in Nulled(v.o[key])} :
                      key \in DOMAIN v.o}
      [] v.k = "arr" ->
            UNION {{JArr([v.a EXCEPT ![i] = e]) : e \in Nulled(v.a[i])} : i \in DOMAIN v.a}
      [] OTHER -> {JNull}

\* v without any optional member
RECURSIVE Minimal(_)
Minimal(v) ==
    CASE v.k = "obj" -> JObj([key \in DOMAIN v.o \ OptionalKeys |-> Minimal(v.o[key])])
      [] v.k = "arr" -> JArr([i \in DOMAIN v.a |-> Minimal(v.a[i])])
      [] OTHER -> v

\* how far beyond the schemas' numeric ranges the payloads' numbers go
ProbeMargin == 1

RankProbes == (RankMin - ProbeMargin) .. (RankMax + ProbeMargin)
RelevanceProbes == (RelevanceMin - ProbeMargin) .. (RelevanceMax + ProbeMargin)

\* co-working payloads: one venue of each rank, and a valid venue followed by
\* one of each rank
RankCases ==
    {[rank |-> r, value |-> CoworkingPayload(<<CoworkingSpace(r)>>)] : r \in RankProbes}
    \cup {[rank |-> r,
           value |-> CoworkingPayload(<<CoworkingSpace(RankMax), CoworkingSpace(r)>>)] :
              r \in RankProbes}

RelevanceCases ==
    {[score |-> r, value |-> CommunityPayload(<<CommunityGroup(r)>>)] :
        r \in RelevanceProbes}
    \cup {[score |-> r,
           value |-> CommunityPayload(<<CommunityGroup(RelevanceMin), CommunityGroup(r)>>)] :
              r \in RelevanceProbes}

\* JSON values that are no payload of any feature
OtherValues ==
    {JNum(42), JNull, JBool(TRUE), JStr("hello"), JArr(<<>>), JObj(EmptyObj)}

PayloadValues ==
    UNION {{FullPayload(f), Minimal(FullPayload(f))}
              \cup {d.val : d \in Drops(FullPayload(f))}
              \cup Extras(FullPayload(f))
              \cup Nulled(FullPayload(f)) : f \in Features}
    \cup {c.value : c \in RankCases} \cup {c.value : c \in RelevanceCases}
    \cup OtherValues

\* a JSON text that repeats a key
DuplicateKeyText ==
    <<TPunct("{"), TStr("response"), TPunct(":"), TStr("a"), TPunct(","),
      TStr("response"), TPunct(":"), TStr("b"), TPunct("}")>>

\* the texts that are JSON, each with the value it denotes
WellFormedCases ==
    {[text |-> Stringify(v), value |-> v] : v \in PayloadValues}
    \cup {[text |-> DuplicateKeyText, value |-> JObj([response |-> JStr("b")])]}

\* the texts that are not JSON: nothing, prose, and each full payload cut
\* short, in a markdown fence, after an introduction, with a trailing comma
Truncated(t) == SubSeq(t, 1, Len(t) - 1)
Fenced(t) == <<TWord("~~~json")>> \o t \o <<TWord("~~~")>>
Introduced(t) == <<TWord("Here"), TWord("is"), TWord("the"), TWord("JSON:")>> \o t
TrailingComma(t) == Truncated(t) \o <<TPunct(","), TPunct("}")>>

MalformedTexts ==
    {<<>>, <<TWord("I"), TWord("cannot"), TWord("help")>>}
    \cup UNION {LET t == Stringify(FullPayload(f))
                IN {Truncated(t), Fenced(t), Introduced(t), TrailingComma(t)} :
                   f \in Features}

Texts == {c.text : c \in WellFormedCases} \cup MalformedTexts

(***************************************************************************)
(* The upstream response: fetch rejects, or resolves with a status and a   *)
(* body.  A body is what response.json() makes of it: not JSON at all,     *)
(* null, or an object that may hold a list of candidates.                  *)
(***************************************************************************)
Part(t) == [hasText |-> TRUE, text |-> t]
PartNoText == [hasText |-> FALSE, text |-> <<>>]
Candidate(parts) == [hasContent |-> TRUE, hasParts |-> TRUE, parts |-> parts]
CandidateNoParts == [hasContent |-> TRUE, hasParts |-> FALSE, parts |-> <<>>]
CandidateNoContent == [hasContent |-> FALSE, hasParts |-> FALSE, parts |-> <<>>]

ObjectBody(cands) ==
    [json |-> TRUE, isNull |-> FALSE, hasCandidates |-> TRUE, candidates |-> cands]
NotJsonBody ==
    [json |-> FALSE, isNull |-> FALSE, hasCandidates |-> FALSE, candidates |-> <<>>]
NullBody ==
    [json |-> TRUE, isNull |-> TRUE, hasCandidates |-> FALSE, candidates |-> <<>>]
NoCandidatesBody ==
    [json |-> TRUE, isNull |-> FALSE, hasCandidates |-> FALSE, candidates |-> <<>>]
EmptyCandidatesBody == ObjectBody(<<>>)
TextBody(t) == ObjectBody(<<Candidate(<<Part(t)>>)>>)

AssistantText == Stringify(FullPayload("getAssistantResponse"))

\* bodies whose first candidate carries no text to parse
TextlessBodies ==
    {ObjectBody(<<CandidateNoContent>>), ObjectBody(<<CandidateNoParts>>),
     ObjectBody(<<Candidate(<<>>)>>), ObjectBody(<<Candidate(<<PartNoText>>)>>)}

\* bodies with more than the one candidate and the one part that is read
ManyBodies ==
    {ObjectBody(<<Candidate(<<Part(AssistantText)>>), Candidate(<<Part(<<>>)>>)>>),
     ObjectBody(<<Candidate(<<Part(<<>>), Part(AssistantText)>>)>>),
     ObjectBody(<<Candidate(<<Part(AssistantText)>>), CandidateNoContent>>)}

Bodies ==
    {NotJsonBody, NullBody, NoCandidatesBody, EmptyCandidatesBody}
    \cup TextlessBodies \cup ManyBodies \cup {TextBody(t) : t \in Texts}

\* the bodies that come with a status other than 200
FewBodies ==
    {NotJsonBody, NoCandidatesBody, EmptyCandidatesBody, TextBody(AssistantText)}

Statuses == {200, 299, 300, 429, 500}

Responses ==
    {[status |-> 200, body |-> b] : b \in Bodies}
    \cup {[status |-> st, body |-> b] : st \in Statuses \ {200}, b \in FewBodies}

(***************************************************************************)
(* Errors.                                                                 *)
(***************************************************************************)
NoBody == [json |-> FALSE, isNull |-> FALSE, hasCandidates |-> FALSE, candidates |-> <<>>]
Err(name, message) == [name |-> name, message |-> message, status |-> 0, body |-> NoBody]

NoError == Err("", "")
ConfigError ==
    Err("Error",
        "Gemini API key not found. Please set the GEMINI_API_KEY environment variable.")
\* `Gemini API error: ${response.status} - ${errorData}`
ApiError(status, errorData) ==
    [name |-> "Error", message |-> "Gemini API error: ${response.status} - ${errorData}",
     status |-> status, body |-> errorData]
NoCandidatesError == Err("Error", "No response generated from Gemini API")
\* what response.json() rejects with when the body is no JSON
BodySyntaxError == Err("SyntaxError", "Unexpected token in JSON")
\* data.candidates of a null body, and candidates[0].content.parts[0].text of
\* no candidate, a candidate without content, without parts, with no part
NullBodyError == Err("TypeError", "Cannot read properties of null (reading 'candidates')")
NoCandidateError == Err("TypeError", "Cannot read properties of undefined (reading 'content')")
NoContentError == Err("TypeError", "Cannot read properties of undefined (reading 'parts')")
NoPartsError == Err("TypeError", "Cannot read properties of undefined (reading '0')")
NoPartError == Err("TypeError", "Cannot read properties of undefined (reading 'text')")
\* query.question of a null or undefined query
NullQueryError == Err("TypeError", "Cannot read properties of null (reading 'question')")
CircularError == Err("TypeError", "Converting circular structure to JSON")
ZodError == Err("ZodError", "issues")

\* what fetch rejects with
NetworkErrors == {Err("TypeError", "fetch failed"), Err("AbortError", "aborted")}

(***************************************************************************)
(* callGeminiAPI (src/gemini.ts:146-209).                                  *)
(***************************************************************************)
NotSet == "<undefined>"
EnvValues == {NotSet, "", "key-1"}

\* process.env.GEMINI_API_KEY || ""
ReadApiKey(e) == IF e = NotSet THEN "" ELSE e

\* !apiKey
KeyMissing(key) == key = ""

\* (variant: any status from 200 on counts as success)
ResponseOk_NoUpperBound(status) == status >= 200

\* generationConfig: { temperature: 0.7, topK: 40, topP: 0.95,
\* maxOutputTokens: 8192, ...modelParams }, the numbers as written
DefaultConfig ==
    [temperature |-> "0.7", topK |-> "40", topP |-> "0.95", maxOutputTokens |-> "8192"]
GenerationConfig(modelParams) == modelParams @@ DefaultConfig

\* what a caller of callGeminiAPI may pass as modelParams; the feature
\* operations pass none
NoParams == [x \in {} |-> ""]
ModelParams ==
    {NoParams, [temperature |-> "0"], [maxOutputTokens |-> "256", candidateCount |-> "1"]}

\* the POST request: the url ends in the key, the body holds the prompt
\* (which template, rendered from which payload) and the generationConfig
Request(key, f, payload, modelParams) ==
    [sent |-> TRUE, key |-> key, prompt |-> [template |-> f, data |-> payload],
     generationConfig |-> GenerationConfig(modelParams)]
NoRequest ==
    [sent |-> FALSE, key |-> "", prompt |-> [template |-> "", data |-> ""],
     generationConfig |-> NoParams]

\* response.ok
ResponseOk(status) == status >= 200 /\ status <= 299

\* await response.text()
ResponseText(body) == body

\* (variant: only a missing list counts, an empty one does not)
NoCandidates_OnlyMissing(data) == ~data.hasCandidates

\* !data.candidates || data.candidates.length === 0
NoCandidates(data) == ~data.hasCandidates \/ Len(data.candidates) = 0

\* { rawResponse: textContent }
RawWrapper(textContent) == JObj([rawResponse |-> textContent])

Returned(v, tried) ==
    [kind |-> "return", value |-> v, error |-> NoError, parsed |-> tried]
Thrown(e) == [kind |-> "throw", value |-> JUndef, error |-> e, parsed |-> FALSE]
Pending == [kind |-> "pending", value |-> JUndef, error |-> NoError, parsed |-> FALSE]
NotCalled == [kind |-> "not called", value |-> JUndef, error |-> NoError, parsed |-> FALSE]

\* JSON.parse(undefined) and JSON.parse of a text that is no JSON throw this
TextSyntaxError == Err("SyntaxError", "Unexpected token in JSON")

\* (variant: no fallback, the parse error escapes)
ParseOrWrap_NoFallback(textContent) ==
    IF textContent.k = "undef" THEN Thrown(TextSyntaxError)
    ELSE LET r == JSONParse(textContent.t)
         IN IF r.ok THEN Returned(r.val, TRUE) ELSE Thrown(TextSyntaxError)

\* (variant: the text is wrapped without being parsed)
ParseOrWrap_AlwaysRaw(textContent) == Returned(RawWrapper(textContent), TRUE)

\* try { return JSON.parse(textContent) } catch (e) { return { rawResponse } }
ParseOrWrap(textContent) ==
    IF textContent.k = "undef" THEN Returned(RawWrapper(textContent), TRUE)
    ELSE LET r == JSONParse(textContent.t)
         IN IF r.ok THEN Returned(r.val, TRUE)
            ELSE Returned(RawWrapper(textContent), TRUE)

\* data.candidates[0].content.parts[0].text and what follows
Extract(data) ==
    IF ~data.hasCandidates THEN Thrown(NoPartsError)
    ELSE IF Len(data.candidates) = 0 THEN Thrown(NoCandidateError)
    ELSE LET cand == data.candidates[1]
         IN IF ~cand.hasContent THEN Thrown(NoContentError)
            ELSE IF ~cand.hasParts THEN Thrown(NoPartsError)
            ELSE IF Len(cand.parts) = 0 THEN Thrown(NoPartError)
            ELSE ParseOrWrap(IF cand.parts[1].hasText THEN JText(cand.parts[1].text)
                             ELSE JUndef)

\* the try block after the fetch resolved: lines 184-204
AfterFetch(resp) ==
    IF ~ResponseOk(resp.status)
    THEN Thrown(ApiError(resp.status, ResponseText(resp.body)))
    ELSE IF ~resp.body.json THEN Thrown(BodySyntaxError)
    ELSE IF resp.body.isNull THEN Thrown(NullBodyError)
    ELSE IF NoCandidates(resp.body) THEN Thrown(NoCandidatesError)
    ELSE Extract(resp.body)

\* (variant: the catch block throws an error of its own)
Rethrow_Wrapped(error) == Err("Error", "Failed to call Gemini API")

\* catch (error) { console.error(...); throw error; }
Rethrow(error) == error

(***************************************************************************)
(* The feature operations (src/gemini.ts:212-429).                         *)
(***************************************************************************)
\* what a caller may pass as the payload: plain data, null or undefined, or
\* an object that refers to itself
PayloadKinds == {"data", "null", "circular"}

\* building the prompt: JSON.stringify(payload, null, 2), "${query.question}"
\* or "${query}"; NoError when the prompt is built
PromptError(f, payload) ==
    CASE f = "getLegalResources" ->
            IF payload = "null" THEN NullQueryError ELSE NoError
      [] f \in {"getAssistantResponse", "callGeminiAPI"} -> NoError
      [] OTHER -> IF payload = "circular" THEN CircularError ELSE NoError

\* return schema.parse(result)
Validate(f, result) ==
    LET r == SafeParse(SchemaOf(f), result)
    IN IF r.success THEN Returned(r.data, FALSE) ELSE Thrown(ZodError)

\* the operation's outcome, given the gateway's
Finish(f, gw) ==
    IF f = "callGeminiAPI" THEN [gw EXCEPT !.parsed = FALSE]
    ELSE IF gw.kind = "return" THEN Validate(f, gw.value)
    ELSE Thrown(gw.error)

(***************************************************************************)
(* The state: the environment, and the invocation in progress or last      *)
(* completed.  Invocations share nothing but the environment, which may    *)
(* change at any time, also while a request is in flight.                  *)
(***************************************************************************)
MaxCalls == 2

VARIABLES
    env,        \* process.env.GEMINI_API_KEY
    pc,         \* "idle", "fetching" (suspended at await fetch), "done"
    calls,      \* invocations started so far
    fetchCount, \* network requests issued so far, by all invocations
    op,         \* the operation invoked
    apiKey,     \* callGeminiAPI's apiKey
    requests,   \* network requests issued by this invocation
    request,    \* the request this invocation issued
    response,   \* what fetch settled with
    raised,     \* the error thrown in callGeminiAPI, where it was thrown
    logged,     \* console.error was called
    gateway,    \* callGeminiAPI's outcome
    validated,  \* schema.parse was called
    outcome     \* the operation's outcome

vars == <<env, pc, calls, fetchCount, op, apiKey, requests, request, response, raised,
          logged, gateway, validated, outcome>>

NoResponse == [kind |-> "none", status |-> 0, body |-> NoBody, error |-> NoError]
Resolved(r) == [kind |-> "resolved", status |-> r.status, body |-> r.body, error |-> NoError]
Rejected(e) == [kind |-> "rejected", status |-> 0, body |-> NoBody, error |-> e]

Init ==
    /\ env \in EnvValues
    /\ pc = "idle"
    /\ calls = 0
    /\ fetchCount = 0
    /\ op = "callGeminiAPI"
    /\ apiKey = ""
    /\ requests = 0
    /\ request = NoRequest
    /\ response = NoResponse
    /\ raised = NoError
    /\ logged = FALSE
    /\ gateway = NotCalled
    /\ validated = FALSE
    /\ outcome = Pending

\* the operator, or anything else in the process, changes the environment
SetEnv(v) ==
    /\ v # env
    /\ env' = v
    /\ UNCHANGED <<pc, calls, fetchCount, op, apiKey, requests, request, response, raised,
                   logged, gateway, validated, outcome>>

\* (variant: a key read by an earlier call is kept)
CachedApiKey == IF apiKey # "" THEN apiKey ELSE ReadApiKey(env)

\* const apiKey = process.env.GEMINI_API_KEY || "", for the call being made
CurrentApiKey == ReadApiKey(env)

\* an operation is called: it builds its prompt and calls the gateway, which
\* runs up to await fetch(url, ...)
Invoke(f, payload, modelParams) ==
    /\ pc # "fetching"
    /\ f \in Features => modelParams = NoParams
    /\ f = "callGeminiAPI" => payload = "data"
    /\ calls < MaxCalls
    /\ calls' = calls + 1
    /\ op' = f
    /\ response' = NoResponse
    /\ logged' = FALSE
    /\ validated' = FALSE
    /\ UNCHANGED env
    /\ IF PromptError(f, payload) # NoError
       THEN /\ pc' = "done"
            /\ gateway' = NotCalled
            /\ outcome' = Thrown(PromptError(f, payload))
            /\ raised' = NoError
            /\ apiKey' = ""
            /\ requests' = 0
            /\ request' = NoRequest
            /\ UNCHANGED fetchCount
       ELSE /\ apiKey' = CurrentApiKey
            /\ IF KeyMissing(apiKey')
               THEN /\ pc' = "done"
                    /\ raised' = ConfigError
                    /\ gateway' = Thrown(ConfigError)
                    /\ outcome' = Finish(f, gateway')
                    /\ requests' = 0
                    /\ request' = NoRequest
                    /\ UNCHANGED fetchCount
               ELSE /\ pc' = "fetching"
                    /\ raised' = NoError
                    /\ gateway' = Pending
                    /\ outcome' = Pending
                    /\ requests' = 1
                    /\ request' = Request(apiKey', f, payload, modelParams)
                    /\ fetchCount' = fetchCount + 1

\* the request fails: fetch rejects, the catch block logs and rethrows
FetchReject(e) ==
    /\ pc = "fetching"
    /\ pc' = "done"
    /\ response' = Rejected(e)
    /\ raised' = e
    /\ logged' = TRUE
    /\ gateway' = Thrown(Rethrow(e))
    /\ outcome' = Finish(op, gateway')
    /\ validated' = FALSE
    /\ UNCHANGED <<env, calls, fetchCount, op, apiKey, requests, request>>

\* the request is answered: the rest of callGeminiAPI runs, then the rest of
\* the operation that called it
FetchResolve(r) ==
    /\ pc = "fetching"
    /\ pc' = "done"
    /\ response' = Resolved(r)
    /\ LET res == AfterFetch(r)
       IN /\ raised' = res.error
          /\ logged' = (res.kind = "throw")
          /\ gateway' = IF res.kind = "throw" THEN Thrown(Rethrow(res.error)) ELSE res
          /\ outcome' = Finish(op, gateway')
          /\ validated' = (op \in Features /\ res.kind = "return")
    /\ UNCHANGED <<env, calls, fetchCount, op, apiKey, requests, request>>

Next ==
    \/ \E v \in EnvValues : SetEnv(v)
    \/ \E f \in Ops, payload \in PayloadKinds, modelParams \in ModelParams :
          Invoke(f, payload, modelParams)
    \/ \E e \in NetworkErrors : FetchReject(e)
    \/ \E r \in Responses : FetchResolve(r)

Spec == Init /\ [][Next]_vars

(***************************************************************************)
(* What the claims speak of.                                               *)
(***************************************************************************)
Done == pc = "done"

\* fetch resolved with a success status
Success == response.kind = "resolved" /\ response.status \in 200 .. 299

\* ... and the body is an object with at least one candidate
HasCandidate ==
    /\ Success
    /\ response.body.json
    /\ ~response.body.isNull
    /\ response.body.hasCandidates
    /\ response.body.candidates # <<>>

\* ... whose first candidate carries a text payload
HasText ==
    /\ HasCandidate
    /\ response.body.candidates[1].hasContent
    /\ response.body.candidates[1].hasParts
    /\ response.body.candidates[1].parts # <<>>
    /\ response.body.candidates[1].parts[1].hasText

FirstText == response.body.candidates[1].parts[1].text

\* the payloads that match feature f's schema, each with the payload less
\* its undeclared fields
MatchingCases(f) ==
    {[value |-> FullPayload(f), clean |-> FullPayload(f)],
     [value |-> Minimal(FullPayload(f)), clean |-> Minimal(FullPayload(f))]}
    \cup {[value |-> d.val, clean |-> d.val] :
             d \in {x \in Drops(FullPayload(f)) : x.key \in OptionalKeys}}
    \cup {[value |-> e, clean |-> FullPayload(f)] : e \in Extras(FullPayload(f))}

\* the payloads of feature f that lack one required field
LackingCases(f) == {d \in Drops(FullPayload(f)) : d.key \notin OptionalKeys}

(***************************************************************************)
(* C1: a call of callGeminiAPI (direct or through a feature operation)     *)
(* that starts while GEMINI_API_KEY is absent or empty ends at once with   *)
(* the configuration error and issues no network request, whatever earlier *)
(* calls did.                                                              *)
(***************************************************************************)
C1_MissingKeyNoRequest ==
    [][(/\ calls' = calls + 1
        /\ gateway'.kind # "not called"
        /\ env \in {NotSet, ""})
       => (/\ pc' = "done"
           /\ gateway' = Thrown(ConfigError)
           /\ outcome' = Thrown(ConfigError)
           /\ requests' = 0
           /\ fetchCount' = fetchCount)]_vars

\* a feature operation failed on the missing key after an earlier call had
\* issued a request with a key
C1_Witness ==
    /\ Done
    /\ op \in Features
    /\ env = NotSet
    /\ outcome = Thrown(ConfigError)
    /\ fetchCount > 0
    /\ requests = 0

(***************************************************************************)
(* C2 as stated: a feature operation never throws on a success response    *)
(* whose text is not JSON, and a validation error is raised only when the  *)
(* text was JSON.                                                          *)
(***************************************************************************)
C2_Original ==
    (Done /\ op \in Features /\ HasText)
       => /\ FirstText \in MalformedTexts => outcome.kind = "return"
          /\ (outcome.kind = "throw" /\ outcome.error = ZodError)
                => FirstText \notin MalformedTexts

(***************************************************************************)
(* C2 amended: on a success response whose text is not JSON callGeminiAPI  *)
(* does not throw, it returns {rawResponse: text}; the feature operation   *)
(* then throws a validation error, as the wrapper fails its schema.  A     *)
(* validation error is raised only when callGeminiAPI returned a value     *)
(* (parsed JSON or the wrapper) that fails the feature's schema.           *)
(***************************************************************************)
C2_MalformedIsWrappedThenRejected ==
    /\ (Done /\ HasText /\ FirstText \in MalformedTexts)
          => /\ gateway = Returned(RawWrapper(JText(FirstText)), TRUE)
             /\ op \in Features => outcome = Thrown(ZodError)
             /\ op \notin Features => outcome.kind = "return"
    /\ (Done /\ outcome.kind = "throw" /\ outcome.error = ZodError)
          => /\ op \in Features
             /\ validated
             /\ gateway.kind = "return"
             /\ ~ZodOk(SchemaOf(op), gateway.value)

C2_Witness ==
    /\ Done
    /\ op = "analyzeCalendarConflicts"
    /\ HasText
    /\ FirstText = Fenced(Stringify(FullPayload("analyzeCalendarConflicts")))
    /\ gateway.kind = "return"
    /\ outcome = Thrown(ZodError)

(***************************************************************************)
(* C3: on a success response whose first candidate carries a text,         *)
(* callGeminiAPI returns {rawResponse: text}, the text unmodified, when    *)
(* the text is not JSON, and the value the text denotes, never the         *)
(* wrapper, when it is.                                                    *)
(***************************************************************************)
C3_ParsedOrWrapped ==
    (Done /\ HasText)
       => /\ FirstText \in MalformedTexts
             => gateway = Returned(RawWrapper(JText(FirstText)), TRUE)
          /\ \A c \in WellFormedCases :
                c.text = FirstText
                   => /\ gateway = Returned(c.value, TRUE)
                      /\ gateway.value # RawWrapper(JText(FirstText))

C3_Witness ==
    /\ Done
    /\ op = "callGeminiAPI"
    /\ HasText
    /\ FirstText = Truncated(Stringify(FullPayload("getLegalResources")))
    /\ outcome.kind = "return"
    /\ outcome.value = RawWrapper(JText(FirstText))

(***************************************************************************)
(* C4 as stated: when the text is JSON that matches the feature's schema,  *)
(* the operation returns the parsed payload with no field added, removed   *)
(* or altered, also when the payload carries undeclared fields.            *)
(***************************************************************************)
C4_Original ==
    (Done /\ op \in Features /\ HasText)
       => \A c \in WellFormedCases :
             (c.text = FirstText /\ ZodOk(SchemaOf(op), c.value))
                => outcome = Returned(c.value, FALSE)

(***************************************************************************)
(* C4 amended: when the text is JSON that matches the feature's schema,    *)
(* the operation returns the parsed payload less the fields the schema     *)
(* does not declare (at the top level, in nested objects and in list       *)
(* elements), every declared field unchanged; a payload that carries       *)
(* declared fields only is returned equal to the parsed payload.           *)
(***************************************************************************)
C4_RoundTripLessUndeclared ==
    (Done /\ op \in Features /\ HasText)
       => \A c \in MatchingCases(op) :
             Stringify(c.value) = FirstText => outcome = Returned(c.clean, FALSE)

\* the legal payload with an undeclared field in one of its nested objects
C4_Witness ==
    /\ Done
    /\ op = "getLegalResources"
    /\ HasText
    /\ \E e \in Extras(FullPayload(op)) :
          /\ "extra" \notin DOMAIN e.o
          /\ Stringify(e) = FirstText
    /\ outcome = Returned(FullPayload(op), FALSE)

(***************************************************************************)
(* C5: when the text is JSON that lacks a field the feature's schema       *)
(* requires, at the top level or inside a list element or nested object    *)
(* that is present, the operation throws a validation error; and whatever  *)
(* a feature operation returns satisfies its schema.                       *)
(***************************************************************************)
C5_MissingRequiredRejected ==
    /\ (Done /\ op \in Features /\ HasText)
          => \A d \in LackingCases(op) :
                Stringify(d.val) = FirstText => outcome = Thrown(ZodError)
    /\ (Done /\ op \in Features /\ outcome.kind = "return")
          => /\ validated
             /\ ZodOk(SchemaOf(op), outcome.value)
             /\ \A key \in DOMAIN SchemaOf(op).shape :
                   ~SchemaOf(op).shape[key].optional => key \in DOMAIN outcome.value.o

\* the legal payload whose visaRequirements object lacks its fees
C5_Witness ==
    /\ Done
    /\ op = "getLegalResources"
    /\ HasText
    /\ \E d \in LackingCases(op) : d.key = "fees" /\ Stringify(d.val) = FirstText
    /\ validated
    /\ outcome = Thrown(ZodError)

(***************************************************************************)
(* C6: getCoworkingRecommendations throws a validation error when some     *)
(* venue's rank is below 1 or above 5 and accepts 1, 5 and what lies       *)
(* between; getCommunityRecommendations likewise for relevanceScore, 1     *)
(* and 10.                                                                 *)
(***************************************************************************)
C6_RankAndRelevanceBounds ==
    /\ (Done /\ op = "getCoworkingRecommendations" /\ HasText)
          => \A c \in RankCases :
                Stringify(c.value) = FirstText
                   => IF c.rank < 1 \/ c.rank > 5
                      THEN outcome = Thrown(ZodError)
                      ELSE outcome = Returned(c.value, FALSE)
    /\ (Done /\ op = "getCommunityRecommendations" /\ HasText)
          => \A c \in RelevanceCases :
                Stringify(c.value) = FirstText
                   => IF c.score < 1 \/ c.score > 10
                      THEN outcome = Thrown(ZodError)
                      ELSE outcome = Returned(c.value, FALSE)

\* a venue of rank 5 was accepted
C6_Witness ==
    /\ Done
    /\ op = "getCoworkingRecommendations"
    /\ HasText
    /\ FirstText = Stringify(CoworkingPayload(<<CoworkingSpace(5)>>))
    /\ outcome.kind = "return"
    /\ outcome.value.o.recommendations.a[1].o.rank = JNum(5)

(***************************************************************************)
(* C7: on a success response whose body has no candidates field or an      *)
(* empty candidates list callGeminiAPI throws "No response generated from  *)
(* Gemini API"; no text is parsed, no schema is applied, and the error the *)
(* operation raises is that one, not a validation error.                   *)
(***************************************************************************)
C7_NoCandidatesIsUpstreamError ==
    (/\ Done
     /\ Success
     /\ response.body.json
     /\ ~response.body.isNull
     /\ (~response.body.hasCandidates \/ response.body.candidates = <<>>))
       => /\ gateway.kind = "throw"
          /\ gateway.error.message = "No response generated from Gemini API"
          /\ gateway.error.name = "Error"
          /\ ~gateway.parsed
          /\ ~validated
          /\ outcome = gateway
          /\ outcome.error # ZodError

C7_Witness ==
    /\ Done
    /\ op = "analyzeBudget"
    /\ response.kind = "resolved"
    /\ response.status = 200
    /\ response.body = EmptyCandidatesBody
    /\ outcome = Thrown(NoCandidatesError)

(***************************************************************************)
(* C8: on a response with a non-success status callGeminiAPI throws an     *)
(* error that carries the status and the raw body, whatever the body       *)
(* holds; it returns nothing and no schema is applied.                     *)
(***************************************************************************)
C8_StatusErrorCarriesStatusAndBody ==
    (Done /\ response.kind = "resolved" /\ response.status \notin 200 .. 299)
       => /\ gateway.kind = "throw"
          /\ gateway.error.name = "Error"
          /\ gateway.error.status = response.status
          /\ gateway.error.body = response.body
          /\ outcome = gateway
          /\ ~validated

\* status 500 with a body that holds a well-formed candidates list
C8_Witness ==
    /\ Done
    /\ op = "getAssistantResponse"
    /\ response.kind = "resolved"
    /\ response.status = 500
    /\ response.body = TextBody(AssistantText)
    /\ outcome.kind = "throw"
    /\ outcome.error.status = 500

(***************************************************************************)
(* C9: a call of callGeminiAPI with a credential issues exactly one        *)
(* network request, whatever its outcome, and an error raised by the       *)
(* network or while handling the response reaches the caller as raised.    *)
(***************************************************************************)
C9_OneRequestNoRetry ==
    /\ (pc # "idle" /\ gateway.kind # "not called" /\ apiKey # "") => requests = 1
    /\ fetchCount <= calls
    /\ (Done /\ response.kind = "rejected")
          => /\ gateway = Thrown(response.error)
             /\ outcome = Thrown(response.error)
    /\ (Done /\ gateway.kind = "throw")
          => /\ gateway.error = raised
             /\ outcome.error = raised

C9_Witness ==
    /\ Done
    /\ op \in Features
    /\ apiKey # ""
    /\ response.kind = "rejected"
    /\ requests = 1
    /\ outcome.kind = "throw"
    /\ outcome.error \in NetworkErrors

(***************************************************************************)
(* C10 as stated: an operation fails only with the configuration error, a  *)
(* transport or upstream error (network failure, non-success status, no    *)
(* candidates) or a validation error; a success response with a candidate  *)
(* always makes callGeminiAPI return a value; and no operation fails       *)
(* before it calls callGeminiAPI.                                          *)
(***************************************************************************)
C10_ThreeErrorKinds ==
    Done =>
       /\ outcome.kind = "throw"
             => \/ outcome.error = ConfigError
                \/ response.kind = "rejected" /\ outcome.error = response.error
                \/ /\ response.kind = "resolved"
                   /\ outcome.error = ApiError(response.status, response.body)
                \/ outcome.error = NoCandidatesError
                \/ outcome.error = ZodError
       /\ HasCandidate => gateway.kind = "return"
       /\ gateway.kind # "not called"

====
